---- MODULE Spec2Model ----
(***************************************************************************)
(* A model of elk_logger/logger.py: the process-wide logger registry       *)
(* (_loggers, guarded by _lock), the construction of a logger handle by    *)
(* setup_logger, the lookup get_logger, the dispatch of a record through   *)
(* the environment filter to the attached handlers, and the two data       *)
(* helpers truncate_large_data and get_extra_from_json.                    *)
(***************************************************************************)
EXTENDS Integers, Sequences, FiniteSets, TLC

VARIABLES
    _loggers,       \* logger.py:11  dict name -> handle (id of a logging.Logger)
    _lock,          \* logger.py:12  threading.Lock: 0 when free, else the holder
    loggerDict,     \* logging's own table name -> Logger object (getLogger)
    pc,             \* per thread: position inside setup_logger / get_logger;
                    \*   "idle" after a return, "raised" after an exception
    op,             \* per thread: the API function the caller invoked
    args,           \* per thread: [name, cfg] of the running call; fallback
                    \*   says that get_logger passed them to setup_logger
    ret,            \* per thread: handle returned by its last call (0: none)
    built,          \* per thread: its last call ran the construction branch
    fresh,          \* per thread: the name was unregistered when it called
    ncalls,         \* API calls started so far
    constructions,  \* per name: times the construction branch was entered
    inserts,        \* per name: times _loggers[name] was assigned
    registered,     \* per name: snapshot taken when the name was inserted
    nlogs,          \* logging calls made so far
    lastLog,        \* outcome of the last logging call
    found,          \* per thread: the Logger as getLogger returned it (line 70)
    \* ---- data helpers (truncate_large_data / get_extra_from_json)
    obj,            \* the payload handed to the helper
    max_len,        \* its max_len argument
    phase,          \* which helper call has been made
    result,         \* truncate_large_data(obj, max_len)
    again,          \* truncate_large_data(result, max_len)
    extra           \* get_extra_from_json(obj, max_len)

regVars  == <<_loggers, _lock, loggerDict, pc, op, args, ret, built, fresh,
              ncalls, constructions, inserts, registered, nlogs, lastLog, found>>
dataVars == <<obj, max_len, phase, result, again, extra>>
vars     == <<regVars, dataVars>>

----------------------------------------------------------------------------
(* Bounds of the model *)
MaxThreads == 2     \* caller threads
MaxCalls   == 3     \* setup_logger / get_logger calls over the whole run
MaxLogs    == 1     \* logging calls over the whole run

Threads == 1..MaxThreads
Names   == {"svc", "db"}

(* Python's None for an optional str argument *)
None == "<None>"
(* Python truthiness of an Optional[str] *)
Truthy(s) == s # None /\ s # ""

(* logging's severity levels, Debug < Info < Warning < Error < Critical *)
INFO == 20
Levels == {10, INFO, 30, 40, 50}
LevelName(l) ==
    CASE l = 10 -> "DEBUG" [] l = 20 -> "INFO" [] l = 30 -> "WARNING"
      [] l = 40 -> "ERROR" [] l = 50 -> "CRITICAL"

DefaultPort == 5959
NoFields  == [given |-> FALSE, fields |-> << >>]
Fields(s) == [given |-> TRUE, fields |-> s]

(* the defaults with the other variant's environment *)
DefaultConfigDev ==
    [level |-> INFO, logstash_host |-> None, logstash_port |-> DefaultPort,
     enable_stdout |-> TRUE, enable_logstash |-> TRUE, environment |-> "dev",
     project_name |-> None, stdout_extra_fields |-> NoFields]

(* setup_logger's defaults, logger.py:55-65 *)
DefaultConfig ==
    [level |-> INFO, logstash_host |-> None, logstash_port |-> DefaultPort,
     enable_stdout |-> TRUE, enable_logstash |-> TRUE, environment |-> "prod",
     project_name |-> None, stdout_extra_fields |-> NoFields]

(* The configurations callers pass in the concurrent runs: the defaults and *)
(* one that differs from them in every argument but the aggregation flag.  *)
Configs ==
    { DefaultConfig,
      [level |-> 40, logstash_host |-> "elk", logstash_port |-> 6000,
       enable_stdout |-> FALSE, enable_logstash |-> TRUE, environment |-> "staging",
       project_name |-> "shop", stdout_extra_fields |-> Fields(<<"user_id">>)] }

(* The console allow-lists callers give: an empty one, the extra-field     *)
(* builder's attribute with another, and attributes logging itself sets    *)
AllowLists ==
    { Fields(<< >>), Fields(<<"user_id", "raw_json">>), Fields(<<"environment", "conn">>) }

(* The configurations of the single-caller runs: every level, every         *)
(* combination of the two sink flags with an absent, empty or given host,   *)
(* with and without a project label, under two environments; and the        *)
(* defaults at DEBUG under each given allow-list.                           *)
WideConfigs ==
    { [level |-> l, logstash_host |-> h, logstash_port |-> DefaultPort,
       enable_stdout |-> so, enable_logstash |-> ls, environment |-> e,
       project_name |-> p, stdout_extra_fields |-> f] :
        l \in Levels, h \in {None, "", "elk"}, so \in BOOLEAN, ls \in BOOLEAN,
        e \in {"prod", "staging"}, p \in {None, "shop"},
        f \in {NoFields} }
    \cup { [DefaultConfig EXCEPT !.level = 10, !.stdout_extra_fields = f] : f \in AllowLists }

----------------------------------------------------------------------------
(* logging.Logger objects.  logging keeps one object per name for the life  *)
(* of the process; a handle is that object's identity.                      *)
Handle(name) == <<"Logger", name>>
NoHandle     == << >>

(* A Logger as logging creates it: level NOTSET, propagate on, nothing attached *)
NewLogger(name) ==
    [name |-> name, level |-> 0, propagate |-> TRUE, handlers |-> << >>, filters |-> << >>]

(* A handler some other code attached to the name before setup_logger ran *)
ForeignHandler ==
    [kind |-> "foreign", level |-> 0, allowed_fields |-> << >>, host |-> None,
     port |-> 0, formatter |-> "default", message_type |-> None,
     extra_prefix |-> None, extra_environment |-> None]

(* logging.getLogger(name): the existing object, or a new one *)
getLogger(dict, name) == IF name \in DOMAIN dict THEN dict[name] ELSE NewLogger(name)

(* Whether the parent (root) logger holds handlers, as after basicConfig *)
ParentHasHandlers == TRUE

(* a reset that never finds anything to clear *)
NoHandlersSeen(lg) == FALSE

(* Logger.hasHandlers(): the logger's own handlers, then its parents' while *)
(* the logger propagates                                                    *)
hasHandlers(lg) == Len(lg.handlers) > 0 \/ (lg.propagate /\ ParentHasHandlers)

(* EnvironmentFilter.__init__ *)
EnvironmentFilter(environment) == [environment |-> environment]

(* a construction that leaves propagate as logging created it *)
ConfigureLoggerPropagating(lg, cfg) ==
    LET l1 == [lg EXCEPT !.level = cfg.level]
        l2 == IF hasHandlers(l1) THEN [l1 EXCEPT !.handlers = << >>] ELSE l1
    IN  [l2 EXCEPT !.filters = Append(@, EnvironmentFilter(cfg.environment))]

(* logger.py:70-78: level, propagate, defensive reset, environment tagger *)
ConfigureLogger(lg, cfg) ==
    LET l1 == [lg EXCEPT !.level = cfg.level, !.propagate = FALSE]
        l2 == IF hasHandlers(l1) THEN [l1 EXCEPT !.handlers = << >>] ELSE l1
    IN  [l2 EXCEPT !.filters = Append(@, EnvironmentFilter(cfg.environment))]

(* logger.py:81-92: the StreamHandler with its ConsoleFormatterWithExtra *)
ConsoleHandler(cfg) ==
    [kind |-> "console", level |-> cfg.level,
     allowed_fields |-> IF cfg.stdout_extra_fields.given
                        THEN cfg.stdout_extra_fields.fields ELSE <<"raw_json">>,
     host |-> None, port |-> 0, formatter |-> "ConsoleFormatterWithExtra",
     message_type |-> None, extra_prefix |-> None, extra_environment |-> None]

(* logger.py:80 *)
AttachConsole(cfg) == cfg.enable_stdout

(* the aggregation sink attached whenever it is enabled, host or not *)
AttachLogstashWithoutHost(cfg) == cfg.enable_logstash

(* logger.py:95 *)
AttachLogstash(cfg) == cfg.enable_logstash /\ Truthy(cfg.logstash_host)

(* logger.py:96-109: the AsynchronousLogstashHandler; SafeLogstashFormatter *)
(* is installed only when a project name is given                           *)
LogstashHandler(cfg) ==
    LET named == Truthy(cfg.project_name)
    IN  [kind |-> "logstash", level |-> cfg.level, allowed_fields |-> << >>,
         host |-> cfg.logstash_host, port |-> cfg.logstash_port,
         formatter |-> IF named THEN "SafeLogstashFormatter" ELSE "default",
         message_type |-> IF named THEN cfg.project_name ELSE None,
         extra_prefix |-> IF named THEN cfg.project_name ELSE None,
         extra_environment |-> IF named THEN cfg.environment ELSE None]

addHandler(lg, h) == [lg EXCEPT !.handlers = Append(@, h)]

(* dict assignment d[k] = v *)
SetItem(d, k, v) == [x \in DOMAIN d \cup {k} |-> IF x = k THEN v ELSE d[x]]

(* a registry whose membership test never succeeds *)
NeverCached(name) == FALSE

(* logger.py:67 and :118  `name in _loggers` *)
CacheHit(name) == name \in DOMAIN _loggers

(* an assignment that rebuilds the dict around the new entry alone *)
RegistryReplace(reg, name, h) == [x \in {name} |-> h]

(* logger.py:112  _loggers[name] = logger *)
RegistryInsert(reg, name, h) == SetItem(reg, name, h)

(* an acquire that never waits *)
AcquireWithoutWaiting(t) == TRUE

(* threading.Lock.acquire(): blocks while another thread holds the lock *)
CanAcquire(t) == _lock = 0

(* a fallback that asks for DEBUG *)
DebugFallback == [DefaultConfig EXCEPT !.level = 10]

(* logger.py:120: get_logger falls back to setup_logger(name), all defaults *)
FallbackConfig == DefaultConfig

----------------------------------------------------------------------------
(* Dispatch of one record: Logger.log -> filters -> handlers *)

(* Values a record attribute can hold.  `native` says whether json encodes *)
(* the value itself; `text` is what str() of it returns, unless str()      *)
(* raises.                                                                 *)
PyStr(s) == [type |-> "str", native |-> TRUE, str_raises |-> FALSE, text |-> s]

(* an object json cannot encode, with a working __str__ *)
Connection == [type |-> "Connection", native |-> FALSE, str_raises |-> FALSE,
               text |-> "<Connection db>"]

(* an object json cannot encode, whose __str__ raises *)
Unprintable == [type |-> "Unprintable", native |-> FALSE, str_raises |-> TRUE, text |-> ""]

(* What callers attach to a logging call through extra= *)
Extras == { << >>, << <<"raw_json", PyStr("{}")>> >>,
            << <<"user_id", PyStr("42")>>, <<"raw_json", PyStr("{}")>> >>,
            << <<"conn", Connection>> >>,
            << <<"conn", Unprintable>> >> }

(* Logger.makeRecord: the environment attribute is not yet set *)
makeRecord(name, levelno, msg, extra_attrs) ==
    [name |-> name, levelno |-> levelno, msg |-> msg, environment |-> None,
     extra |-> extra_attrs]

(* a filter method that stamps the record and falls off its end (None) *)
FilterReturnsNone(f, record) ==
    [keep |-> FALSE, record |-> [record EXCEPT !.environment = f.environment]]

(* logger.py:31-33  EnvironmentFilter.filter *)
EnvironmentFilter_filter(f, record) ==
    [keep |-> TRUE, record |-> [record EXCEPT !.environment = f.environment]]

(* logging.Filterer.filter: every filter in turn, stopping at the first *)
(* that rejects the record                                              *)
RECURSIVE RunFilters(_, _, _)
RunFilters(filters, i, record) ==
    IF i > Len(filters) THEN [keep |-> TRUE, record |-> record]
    ELSE LET r == EnvironmentFilter_filter(filters[i], record)
         IN  IF r.keep THEN RunFilters(filters, i + 1, r.record)
             ELSE [keep |-> FALSE, record |-> r.record]

(* a level test that also rejects the minimum level itself *)
EnabledAboveOnly(lg, levelno) == levelno > (IF lg.level # 0 THEN lg.level ELSE 30)

(* Logger.isEnabledFor: against the effective level (the parent's, *)
(* WARNING for root, while the logger's own level is NOTSET)       *)
isEnabledFor(lg, levelno) == levelno >= (IF lg.level # 0 THEN lg.level ELSE 30)

(* Logger.callHandlers: `if record.levelno >= hdlr.level` *)
HandlerAccepts(h, record) == record.levelno >= h.level

(* record.__dict__.items(): the attributes logging sets, the caller's    *)
(* extra=, and what the filter and the formatter added, in that order    *)
RecordAttrs(record) ==
    << <<"name", PyStr(record.name)>>, <<"msg", PyStr(record.msg)>>,
       <<"levelname", PyStr(LevelName(record.levelno))>> >>
    \o record.extra
    \o << <<"environment", PyStr(record.environment)>>, <<"message", PyStr(record.msg)>>,
          <<"asctime", PyStr("[asctime]")>> >>

(* a formatter that appends every attribute of the record *)
ExtraFieldsUnfiltered(h, record) == RecordAttrs(record)

(* logger.py:44-47: the record's attributes named in allowed_fields *)
ExtraFields(h, record) ==
    LET allowed == { h.allowed_fields[i] : i \in 1..Len(h.allowed_fields) }
        Allowed(kv) == kv[1] \in allowed
    IN  SelectSeq(RecordAttrs(record), Allowed)

(* ' '.join(f'{k}={v}' ...) as the sequence of its pieces *)
RECURSIVE JoinPairs(_)
JoinPairs(kvs) ==
    IF Len(kvs) = 0 THEN << >>
    ELSE IF Len(kvs) = 1 THEN << kvs[1][1] \o "=" \o kvs[1][2].text >>
    ELSE << kvs[1][1] \o "=" \o kvs[1][2].text, " " >> \o JoinPairs(Tail(kvs))

(* logger.py:84 with logging.Formatter.format: the base line *)
BaseLine(record) ==
    << "[asctime]", "[" \o record.name \o "]", "[" \o LevelName(record.levelno) \o "]",
       "[" \o record.environment \o "]", " ", record.msg >>

(* logger.py:41-52  ConsoleFormatterWithExtra.format *)
ConsoleFormat(h, record) ==
    LET base_msg == BaseLine(record)
        extra_fields == ExtraFields(h, record)
    IN  IF Len(extra_fields) > 0
        THEN base_msg \o <<" | ">> \o JoinPairs(extra_fields)
        ELSE base_msg

(* f'{k}={v}' calls str(v): formatting raises when an allowed value's does *)
ConsoleFormatRaises(h, record) ==
    \E i \in 1..Len(ExtraFields(h, record)) : ExtraFields(h, record)[i][2].str_raises

(* logger.py:19-23  SafeLogstashFormatter._json_default *)
_json_default(o) ==
    IF ~ o.str_raises THEN o.text ELSE "<non-serializable: " \o o.type \o ">"

(* logger.py:16-17  SafeLogstashFormatter._serialize: json.dumps with the *)
(* default hook, which json calls for each value it cannot encode         *)
SafeLogstashFormatter_serialize(message) ==
    [ok |-> TRUE,
     doc |-> [i \in 1..Len(message) |->
                 << message[i][1],
                    IF message[i][2].native THEN message[i][2].text
                    ELSE _json_default(message[i][2]) >>]]

(* LogstashFormatter._serialize, which logger.py:16-17 overrides: json.dumps *)
(* without a default hook raises TypeError at a value it cannot encode       *)
LogstashFormatter_serialize(message) ==
    IF \A i \in 1..Len(message) : message[i][2].native
    THEN [ok |-> TRUE, doc |-> [i \in 1..Len(message) |-> << message[i][1], message[i][2].text >>]]
    ELSE [ok |-> FALSE, doc |-> << >>]

(* the handler's formatter: logger.py:101-108 sets SafeLogstashFormatter, *)
(* otherwise the handler keeps the library's own                          *)
Serialize(h, message) ==
    IF h.formatter = "SafeLogstashFormatter" THEN SafeLogstashFormatter_serialize(message)
    ELSE LogstashFormatter_serialize(message)

(* Handler.handle -> emit: what the sink receives.  An exception raised *)
(* while formatting is caught by emit (handleError) and the record lost *)
Emit(h, record) ==
    LET ser == Serialize(h, RecordAttrs(record))
    IN  [sink |-> h.kind, host |-> h.host, levelno |-> record.levelno,
         environment |-> record.environment,
         formatter |-> h.formatter,
         line |-> IF h.kind = "console" /\ ~ ConsoleFormatRaises(h, record)
                  THEN ConsoleFormat(h, record) ELSE << >>,
         document |-> IF h.kind = "logstash" THEN ser.doc ELSE << >>,
         error |-> \/ h.kind = "console" /\ ConsoleFormatRaises(h, record)
                   \/ h.kind = "logstash" /\ ~ ser.ok]

RECURSIVE HandlerLoop(_, _, _)
HandlerLoop(handlers, i, record) ==
    IF i > Len(handlers) THEN << >>
    ELSE (IF HandlerAccepts(handlers[i], record)
          THEN << Emit(handlers[i], record) >> ELSE << >>)
         \o HandlerLoop(handlers, i + 1, record)

(* Logger.callHandlers: the logger's handlers, then the parent's when the *)
(* logger propagates                                                      *)
callHandlers(lg, record) ==
    HandlerLoop(lg.handlers, 1, record)
    \o (IF lg.propagate
        THEN << [sink |-> "parent", host |-> None, levelno |-> record.levelno,
                 environment |-> record.environment, formatter |-> "default",
                 line |-> << >>, document |-> << >>, error |-> FALSE] >>
        ELSE << >>)

(* Logger.log(level, msg, extra=...): the deliveries it causes *)
LoggerLog(lg, levelno, msg, extra_attrs) ==
    IF ~ isEnabledFor(lg, levelno) THEN [made |-> FALSE, kept |-> FALSE, deliveries |-> << >>]
    ELSE LET f == RunFilters(lg.filters, 1, makeRecord(lg.name, levelno, msg, extra_attrs))
         IN  [made |-> TRUE, kept |-> f.keep,
              deliveries |-> IF f.keep THEN callHandlers(lg, f.record) ELSE << >>]

----------------------------------------------------------------------------
(* The registry: setup_logger and get_logger, one step per action *)

NoLog == [handle |-> NoHandle, levelno |-> 0, extra |-> << >>, made |-> FALSE,
          kept |-> FALSE, deliveries |-> << >>]

(* Loggers that other code created, and attached a handler to, before the *)
(* first call into this module                                            *)
PreExisting == { [n \in S |-> addHandler(NewLogger(n), ForeignHandler)] : S \in SUBSET {"svc"} }

(* no Logger object at hand *)
NoLogger == [name |-> "", level |-> 0, propagate |-> TRUE, handlers |-> << >>, filters |-> << >>]

InitReg ==
    /\ _loggers = << >>
    /\ _lock = 0
    /\ loggerDict \in PreExisting
    /\ pc = [t \in Threads |-> "idle"]
    /\ op = [t \in Threads |-> "none"]
    /\ args = [t \in Threads |-> [name |-> "", cfg |-> DefaultConfig, fallback |-> FALSE]]
    /\ ret = [t \in Threads |-> NoHandle]
    /\ built = [t \in Threads |-> FALSE]
    /\ fresh = [t \in Threads |-> FALSE]
    /\ ncalls = 0
    /\ constructions = [n \in Names |-> 0]
    /\ inserts = [n \in Names |-> 0]
    /\ registered = << >>
    /\ nlogs = 0
    /\ lastLog = NoLog
    /\ found = [t \in Threads |-> NoLogger]

(* A caller invokes setup_logger(name, **cfg) *)
CallSetup(t, name, cfg, maxCalls) ==
    /\ pc[t] \in {"idle", "raised"} /\ ncalls < maxCalls
    /\ pc' = [pc EXCEPT ![t] = "s_lock"]
    /\ op' = [op EXCEPT ![t] = "setup_logger"]
    /\ args' = [args EXCEPT ![t] = [name |-> name, cfg |-> cfg, fallback |-> FALSE]]
    /\ ret' = [ret EXCEPT ![t] = NoHandle]
    /\ built' = [built EXCEPT ![t] = FALSE]
    /\ fresh' = [fresh EXCEPT ![t] = ~ CacheHit(name)]
    /\ ncalls' = ncalls + 1
    /\ UNCHANGED <<_loggers, _lock, loggerDict, constructions, inserts, registered,
                   nlogs, lastLog>>
    /\ UNCHANGED found
    /\ UNCHANGED dataVars

(* A caller invokes get_logger(name) *)
CallGet(t, name, maxCalls) ==
    /\ pc[t] \in {"idle", "raised"} /\ ncalls < maxCalls
    /\ pc' = [pc EXCEPT ![t] = "g_lock"]
    /\ op' = [op EXCEPT ![t] = "get_logger"]
    /\ args' = [args EXCEPT ![t] = [name |-> name, cfg |-> FallbackConfig,
                                     fallback |-> FALSE]]
    /\ ret' = [ret EXCEPT ![t] = NoHandle]
    /\ built' = [built EXCEPT ![t] = FALSE]
    /\ fresh' = [fresh EXCEPT ![t] = ~ CacheHit(name)]
    /\ ncalls' = ncalls + 1
    /\ UNCHANGED <<_loggers, _lock, loggerDict, constructions, inserts, registered,
                   nlogs, lastLog>>
    /\ UNCHANGED found
    /\ UNCHANGED dataVars

(* logger.py:66  with _lock: *)
SetupAcquire(t) ==
    /\ pc[t] = "s_lock" /\ CanAcquire(t)
    /\ _lock' = t
    /\ pc' = [pc EXCEPT ![t] = "s_check"]
    /\ UNCHANGED <<_loggers, loggerDict, op, args, ret, built, fresh, ncalls,
                   constructions, inserts, registered, nlogs, lastLog>>
    /\ UNCHANGED found
    /\ UNCHANGED dataVars

(* logger.py:67-68: the cache hit returns the registered handle and leaves *)
(* the with block; otherwise construction begins                           *)
SetupCheck(t) ==
    /\ pc[t] = "s_check"
    /\ IF CacheHit(args[t].name)
       THEN /\ ret' = [ret EXCEPT ![t] = _loggers[args[t].name]]
            /\ _lock' = 0
            /\ pc' = [pc EXCEPT ![t] = "idle"]
            /\ UNCHANGED <<built, constructions>>
       ELSE /\ pc' = [pc EXCEPT ![t] = "s_init"]
            /\ built' = [built EXCEPT ![t] = TRUE]
            /\ constructions' = [constructions EXCEPT ![args[t].name] = @ + 1]
            /\ UNCHANGED <<ret, _lock>>
    /\ UNCHANGED <<_loggers, loggerDict, op, args, fresh, ncalls, inserts, registered,
                   nlogs, lastLog>>
    /\ UNCHANGED found
    /\ UNCHANGED dataVars

(* a construction that registers the logger as soon as it has it *)
SetupInitPublishing(t) ==
    /\ pc[t] = "s_init"
    /\ found' = [found EXCEPT ![t] = getLogger(loggerDict, args[t].name)]
    /\ loggerDict' = SetItem(loggerDict, args[t].name,
                             ConfigureLogger(getLogger(loggerDict, args[t].name), args[t].cfg))
    /\ _loggers' = RegistryInsert(_loggers, args[t].name, Handle(args[t].name))
    /\ pc' = [pc EXCEPT ![t] = "s_console"]
    /\ UNCHANGED <<_lock, op, args, ret, built, fresh, ncalls, constructions,
                   inserts, registered, nlogs, lastLog>>
    /\ UNCHANGED dataVars

(* logger.py:70-78 *)
SetupInit(t) ==
    /\ pc[t] = "s_init"
    /\ found' = [found EXCEPT ![t] = getLogger(loggerDict, args[t].name)]
    /\ loggerDict' = SetItem(loggerDict, args[t].name,
                             ConfigureLogger(getLogger(loggerDict, args[t].name), args[t].cfg))
    /\ pc' = [pc EXCEPT ![t] = "s_console"]
    /\ UNCHANGED <<_loggers, _lock, op, args, ret, built, fresh, ncalls, constructions,
                   inserts, registered, nlogs, lastLog>>
    /\ UNCHANGED dataVars

(* logger.py:80-93 *)
SetupConsole(t) ==
    /\ pc[t] = "s_console"
    /\ loggerDict' = IF AttachConsole(args[t].cfg)
                     THEN [loggerDict EXCEPT ![args[t].name] = addHandler(@, ConsoleHandler(args[t].cfg))]
                     ELSE loggerDict
    /\ pc' = [pc EXCEPT ![t] = "s_logstash"]
    /\ UNCHANGED <<_loggers, _lock, op, args, ret, built, fresh, ncalls, constructions,
                   inserts, registered, nlogs, lastLog>>
    /\ UNCHANGED found
    /\ UNCHANGED dataVars

(* logger.py:95-110 *)
SetupLogstash(t) ==
    /\ pc[t] = "s_logstash"
    /\ loggerDict' = IF AttachLogstash(args[t].cfg)
                     THEN [loggerDict EXCEPT ![args[t].name] = addHandler(@, LogstashHandler(args[t].cfg))]
                     ELSE loggerDict
    /\ pc' = [pc EXCEPT ![t] = "s_insert"]
    /\ UNCHANGED <<_loggers, _lock, op, args, ret, built, fresh, ncalls, constructions,
                   inserts, registered, nlogs, lastLog>>
    /\ UNCHANGED found
    /\ UNCHANGED dataVars

(* an exception that propagates without the lock being released *)
SetupRaiseHoldingLock(t) ==
    /\ pc[t] = "s_logstash" /\ AttachLogstash(args[t].cfg)
    /\ pc' = [pc EXCEPT ![t] = "raised"]
    /\ found' = [found EXCEPT ![t] = NoLogger]
    /\ UNCHANGED <<_loggers, _lock, loggerDict, op, args, ret, built, fresh, ncalls,
                   constructions, inserts, registered, nlogs, lastLog>>
    /\ UNCHANGED dataVars

(* logger.py:96-108: the collaborator's constructor (the handler's or the *)
(* formatter's) raises.  The exception leaves the with block, which       *)
(* releases the lock, and reaches the caller; what lines 70-93 did to the *)
(* Logger object stays, and the name is not inserted.                     *)
SetupRaise(t) ==
    /\ pc[t] = "s_logstash" /\ AttachLogstash(args[t].cfg)
    /\ _lock' = 0
    /\ pc' = [pc EXCEPT ![t] = "raised"]
    /\ found' = [found EXCEPT ![t] = NoLogger]
    /\ UNCHANGED <<_loggers, loggerDict, op, args, ret, built, fresh, ncalls,
                   constructions, inserts, registered, nlogs, lastLog>>
    /\ UNCHANGED dataVars

(* logger.py:112-113: insert, return, leave the with block *)
SetupInsert(t) ==
    /\ pc[t] = "s_insert"
    /\ LET name == args[t].name
           logger == Handle(loggerDict[name].name)
       IN  /\ _loggers' = RegistryInsert(_loggers, name, logger)
           /\ ret' = [ret EXCEPT ![t] = logger]
           /\ inserts' = [inserts EXCEPT ![name] = @ + 1]
           /\ registered' = IF name \in DOMAIN registered THEN registered
                            ELSE SetItem(registered, name,
                                         [cfg |-> args[t].cfg, handle |-> logger,
                                          logger |-> loggerDict[name]])
    /\ _lock' = 0
    /\ pc' = [pc EXCEPT ![t] = "idle"]
    /\ found' = [found EXCEPT ![t] = NoLogger]
    /\ UNCHANGED <<loggerDict, op, args, built, fresh, ncalls, constructions, nlogs, lastLog>>
    /\ UNCHANGED dataVars

(* logger.py:117  with _lock: *)
GetAcquire(t) ==
    /\ pc[t] = "g_lock" /\ CanAcquire(t)
    /\ _lock' = t
    /\ pc' = [pc EXCEPT ![t] = "g_check"]
    /\ UNCHANGED <<_loggers, loggerDict, op, args, ret, built, fresh, ncalls,
                   constructions, inserts, registered, nlogs, lastLog>>
    /\ UNCHANGED found
    /\ UNCHANGED dataVars

(* a get_logger that calls setup_logger from inside its with block *)
GetCheckHoldingLock(t) ==
    /\ pc[t] = "g_check"
    /\ IF CacheHit(args[t].name)
       THEN /\ ret' = [ret EXCEPT ![t] = _loggers[args[t].name]]
            /\ pc' = [pc EXCEPT ![t] = "idle"]
            /\ _lock' = 0
            /\ UNCHANGED args
       ELSE /\ pc' = [pc EXCEPT ![t] = "s_lock"]
            /\ args' = [args EXCEPT ![t] = [name |-> args[t].name, cfg |-> FallbackConfig,
                                             fallback |-> TRUE]]
            /\ UNCHANGED <<ret, _lock>>
    /\ UNCHANGED <<_loggers, loggerDict, op, built, fresh, ncalls, constructions, inserts,
                   registered, nlogs, lastLog>>
    /\ UNCHANGED found
    /\ UNCHANGED dataVars

(* logger.py:118-120: the hit returns; the miss leaves the with block and *)
(* calls setup_logger(name)                                               *)
GetCheck(t) ==
    /\ pc[t] = "g_check"
    /\ _lock' = 0
    /\ IF CacheHit(args[t].name)
       THEN /\ ret' = [ret EXCEPT ![t] = _loggers[args[t].name]]
            /\ pc' = [pc EXCEPT ![t] = "idle"]
            /\ UNCHANGED args
       ELSE /\ pc' = [pc EXCEPT ![t] = "s_lock"]
            /\ args' = [args EXCEPT ![t] = [name |-> args[t].name, cfg |-> FallbackConfig,
                                             fallback |-> TRUE]]
            /\ UNCHANGED ret
    /\ UNCHANGED <<_loggers, loggerDict, op, built, fresh, ncalls, constructions, inserts,
                   registered, nlogs, lastLog>>
    /\ UNCHANGED found
    /\ UNCHANGED dataVars

(* A caller logs through the handle its last call returned *)
Log(t, levelno, extra_attrs, maxLogs) ==
    /\ pc[t] = "idle" /\ ret[t] # NoHandle /\ nlogs < maxLogs
    /\ LET lg == loggerDict[ret[t][2]]
           out == LoggerLog(lg, levelno, "msg", extra_attrs)
       IN  lastLog' = [handle |-> ret[t], levelno |-> levelno, extra |-> extra_attrs,
                       made |-> out.made, kept |-> out.kept, deliveries |-> out.deliveries]
    /\ nlogs' = nlogs + 1
    /\ UNCHANGED <<_loggers, _lock, loggerDict, pc, op, args, ret, built, fresh, ncalls,
                   constructions, inserts, registered>>
    /\ UNCHANGED found
    /\ UNCHANGED dataVars

InitDataIdle ==
    /\ obj = [k |-> "null"] /\ max_len = 0 /\ phase = "idle"
    /\ result = [k |-> "null"] /\ again = [k |-> "null"] /\ extra = << >>

(* Concurrent callers of the registry, the small configuration set *)
Next ==
    \E t \in Threads :
        \/ \E name \in Names, cfg \in Configs : CallSetup(t, name, cfg, MaxCalls)
        \/ \E name \in Names : CallGet(t, name, MaxCalls)
        \/ SetupAcquire(t)
        \/ SetupCheck(t)
        \/ SetupInit(t)
        \/ SetupConsole(t)
        \/ SetupLogstash(t)
        \/ SetupInsert(t)
        \/ GetAcquire(t)
        \/ GetCheck(t)

Init == InitReg /\ InitDataIdle

Spec == Init /\ [][Next]_vars

(* One caller making one call for one name, under every configuration, *)
(* then logging through the returned handle at every level             *)
NextWide ==
    \/ \E cfg \in WideConfigs : CallSetup(1, "svc", cfg, 1)
    \/ CallGet(1, "svc", 1)
    \/ SetupAcquire(1)
    \/ SetupCheck(1)
    \/ SetupInit(1)
    \/ SetupConsole(1)
    \/ SetupLogstash(1)
    \/ SetupInsert(1)
    \/ GetAcquire(1)
    \/ GetCheck(1)
    \/ \E levelno \in Levels, extra_attrs \in Extras : Log(1, levelno, extra_attrs, MaxLogs)

SpecWide == Init /\ [][NextWide]_vars

(* The steps of a call in progress: the thread is scheduled *)
Step(t) ==
    \/ SetupAcquire(t) \/ SetupCheck(t) \/ SetupInit(t) \/ SetupConsole(t)
    \/ SetupLogstash(t) \/ SetupRaise(t) \/ SetupInsert(t)
    \/ GetAcquire(t) \/ GetCheck(t)

(* Concurrent callers of one name whose aggregation sink may fail to be *)
(* constructed, and who may call again after the exception              *)
NextFair ==
    \E t \in Threads :
        \/ \E cfg \in Configs : CallSetup(t, "svc", cfg, MaxCalls)
        \/ CallGet(t, "svc", MaxCalls)
        \/ SetupAcquire(t)
        \/ SetupCheck(t)
        \/ SetupInit(t)
        \/ SetupConsole(t)
        \/ SetupLogstash(t)
        \/ SetupRaise(t)
        \/ SetupInsert(t)
        \/ GetAcquire(t)
        \/ GetCheck(t)

(* The scheduler runs every thread that can take a step; a thread waiting *)
(* for the lock gets it once the lock stays free                          *)
SpecFair == Init /\ [][NextFair]_vars /\ \A t \in Threads : WF_vars(Step(t))

----------------------------------------------------------------------------
(* Payloads: what json decodes to.  Text is a sequence of characters.      *)
JNull     == [k |-> "null"]
JBool(b)  == [k |-> "bool", b |-> b]
JInt(n)   == [k |-> "int", n |-> n]
JStr(s)   == [k |-> "str", s |-> s]
JList(xs) == [k |-> "list", items |-> xs]
JDict(ps) == [k |-> "dict", pairs |-> ps]      \* <<key, value>> in insertion order

DigitChar(d) == <<"0", "1", "2", "3", "4", "5", "6", "7", "8", "9">>[d + 1]

(* str(n) of a non-negative int *)
RECURSIVE Decimal(_)
Decimal(n) == IF n < 10 THEN << DigitChar(n) >> ELSE Decimal(n \div 10) \o << DigitChar(n % 10) >>

(* a placeholder that is one short of the length *)
PlaceholderOffByOne(n) ==
    <<"<", "t", "r", "u", "n", "c", "a", "t", "e", "d", ":", " ">> \o Decimal(n - 1)
    \o <<" ", "c", "h", "a", "r", "s", ">">>

(* logger.py:129  f"<truncated: {len(obj)} chars>" *)
Placeholder(n) ==
    <<"<", "t", "r", "u", "n", "c", "a", "t", "e", "d", ":", " ">> \o Decimal(n)
    \o <<" ", "c", "h", "a", "r", "s", ">">>

(* a length test that also replaces text of exactly max_len *)
TooLongInclusive(o, ml) == o.k = "str" /\ Len(o.s) >= ml

(* logger.py:128  isinstance(obj, str) and len(obj) > max_len *)
TooLong(o, ml) == o.k = "str" /\ Len(o.s) > ml

(* logger.py:123-130 *)
RECURSIVE truncate_large_data(_, _)
truncate_large_data(o, ml) ==
    IF o.k = "dict"
    THEN JDict([i \in 1..Len(o.pairs) |-> << o.pairs[i][1], truncate_large_data(o.pairs[i][2], ml) >>])
    ELSE IF o.k = "list"
    THEN JList([i \in 1..Len(o.items) |-> truncate_large_data(o.items[i], ml)])
    ELSE IF TooLong(o, ml)
    THEN JStr(Placeholder(Len(o.s)))
    ELSE o

(* json.dumps(..., ensure_ascii=False, indent=2), logger.py:135 *)
RECURSIVE EscapeChars(_)
EscapeChars(s) ==
    IF Len(s) = 0 THEN << >>
    ELSE (CASE s[1] = "\"" -> <<"\\", "\"">>
            [] s[1] = "\\" -> <<"\\", "\\">>
            [] s[1] = "\n" -> <<"\\", "n">>
            [] OTHER -> << s[1] >>) \o EscapeChars(Tail(s))

QuoteString(s) == <<"\"">> \o EscapeChars(s) \o <<"\"">>

(* a line break and the indentation of nesting level n, two spaces a level *)
RECURSIVE Spaces(_)
Spaces(n) == IF n = 0 THEN << >> ELSE <<" ">> \o Spaces(n - 1)
NewlineIndent(n) == <<"\n">> \o Spaces(2 * n)

RECURSIVE json_encode(_, _)
RECURSIVE EncodeItems(_, _, _)
RECURSIVE EncodePairs(_, _, _)
EncodeItems(xs, i, n) ==
    IF i > Len(xs) THEN << >>
    ELSE (IF i > 1 THEN <<",">> ELSE << >>) \o NewlineIndent(n) \o json_encode(xs[i], n)
         \o EncodeItems(xs, i + 1, n)
EncodePairs(ps, i, n) ==
    IF i > Len(ps) THEN << >>
    ELSE (IF i > 1 THEN <<",">> ELSE << >>) \o NewlineIndent(n) \o QuoteString(ps[i][1])
         \o <<":", " ">> \o json_encode(ps[i][2], n) \o EncodePairs(ps, i + 1, n)
json_encode(o, n) ==
    CASE o.k = "null" -> <<"n", "u", "l", "l">>
      [] o.k = "bool" -> IF o.b THEN <<"t", "r", "u", "e">> ELSE <<"f", "a", "l", "s", "e">>
      [] o.k = "int"  -> IF o.n < 0 THEN <<"-">> \o Decimal(0 - o.n) ELSE Decimal(o.n)
      [] o.k = "str"  -> QuoteString(o.s)
      [] o.k = "list" -> IF Len(o.items) = 0 THEN <<"[", "]">>
                         ELSE <<"[">> \o EncodeItems(o.items, 1, n + 1) \o NewlineIndent(n) \o <<"]">>
      [] o.k = "dict" -> IF Len(o.pairs) = 0 THEN <<"{", "}">>
                         ELSE <<"{">> \o EncodePairs(o.pairs, 1, n + 1) \o NewlineIndent(n) \o <<"}">>

json_dumps(o) == json_encode(o, 0)

(* truncation applied to the encoded text instead of the payload *)
ExtraTruncatedAfterEncoding(data, ml) ==
    << <<"raw_json", truncate_large_data(JStr(json_dumps(data)), ml).s>> >>

(* logger.py:133-136 *)
get_extra_from_json(data, ml) ==
    << <<"raw_json", json_dumps(truncate_large_data(data, ml))>> >>

----------------------------------------------------------------------------
(* Decoding of a JSON text (json.loads), used to state what the encoded   *)
(* text means.  A result is [ok, v, next]: next is the position after the *)
(* value read.                                                            *)
ParseFail == [ok |-> FALSE, v |-> JNull, next |-> 0]
IsWs(c)    == c \in {" ", "\n", "\t", "\r"}
IsDigit(c) == c \in {"0", "1", "2", "3", "4", "5", "6", "7", "8", "9"}
DigitVal(c) == CHOOSE d \in 0..9 : DigitChar(d) = c

RECURSIVE SkipWs(_, _)
SkipWs(s, i) == IF i <= Len(s) /\ IsWs(s[i]) THEN SkipWs(s, i + 1) ELSE i

(* the characters of a string literal, from the position after its opening quote *)
RECURSIVE ScanString(_, _, _)
ScanString(s, i, acc) ==
    IF i > Len(s) THEN ParseFail
    ELSE IF s[i] = "\"" THEN [ok |-> TRUE, v |-> JStr(acc), next |-> i + 1]
    ELSE IF s[i] = "\n" THEN ParseFail
    ELSE IF s[i] = "\\"
    THEN IF i + 1 > Len(s) THEN ParseFail
         ELSE IF s[i + 1] \in {"\"", "\\", "/"} THEN ScanString(s, i + 2, Append(acc, s[i + 1]))
         ELSE IF s[i + 1] = "n" THEN ScanString(s, i + 2, Append(acc, "\n"))
         ELSE ParseFail
    ELSE ScanString(s, i + 1, Append(acc, s[i]))

RECURSIVE ScanDigits(_, _, _)
ScanDigits(s, i, acc) ==
    IF i <= Len(s) /\ IsDigit(s[i]) THEN ScanDigits(s, i + 1, 10 * acc + DigitVal(s[i]))
    ELSE [ok |-> TRUE, v |-> JInt(acc), next |-> i]

Literal(s, i, word, v) ==
    IF i + Len(word) - 1 <= Len(s) /\ SubSeq(s, i, i + Len(word) - 1) = word
    THEN [ok |-> TRUE, v |-> v, next |-> i + Len(word)] ELSE ParseFail

RECURSIVE ParseValue(_, _)
RECURSIVE ParseItems(_, _, _)
RECURSIVE ParsePairs(_, _, _)
(* after "[" or ",": one value, then "," or "]" *)
ParseItems(s, i, acc) ==
    LET r == ParseValue(s, SkipWs(s, i))
        j == SkipWs(s, r.next)
    IN  IF ~ r.ok \/ j > Len(s) THEN ParseFail
        ELSE IF s[j] = "," THEN ParseItems(s, j + 1, Append(acc, r.v))
        ELSE IF s[j] = "]" THEN [ok |-> TRUE, v |-> JList(Append(acc, r.v)), next |-> j + 1]
        ELSE ParseFail
(* after "{" or ",": a key, ":", one value, then "," or "}" *)
ParsePairs(s, i, acc) ==
    LET a == SkipWs(s, i)
        key == IF a <= Len(s) /\ s[a] = "\"" THEN ScanString(s, a + 1, << >>) ELSE ParseFail
        c == SkipWs(s, key.next)
        r == IF key.ok /\ c <= Len(s) /\ s[c] = ":" THEN ParseValue(s, SkipWs(s, c + 1)) ELSE ParseFail
        j == SkipWs(s, r.next)
    IN  IF ~ r.ok \/ j > Len(s) THEN ParseFail
        ELSE IF s[j] = "," THEN ParsePairs(s, j + 1, Append(acc, << key.v.s, r.v >>))
        ELSE IF s[j] = "}" THEN [ok |-> TRUE, v |-> JDict(Append(acc, << key.v.s, r.v >>)), next |-> j + 1]
        ELSE ParseFail
ParseValue(s, i) ==
    IF i > Len(s) THEN ParseFail
    ELSE CASE s[i] = "\"" -> ScanString(s, i + 1, << >>)
           [] s[i] = "[" -> LET j == SkipWs(s, i + 1)
                            IN  IF j <= Len(s) /\ s[j] = "]"
                                THEN [ok |-> TRUE, v |-> JList(<< >>), next |-> j + 1]
                                ELSE ParseItems(s, i + 1, << >>)
           [] s[i] = "{" -> LET j == SkipWs(s, i + 1)
                            IN  IF j <= Len(s) /\ s[j] = "}"
                                THEN [ok |-> TRUE, v |-> JDict(<< >>), next |-> j + 1]
                                ELSE ParsePairs(s, i + 1, << >>)
           [] IsDigit(s[i]) -> ScanDigits(s, i, 0)
           [] s[i] = "t" -> Literal(s, i, <<"t", "r", "u", "e">>, JBool(TRUE))
           [] s[i] = "f" -> Literal(s, i, <<"f", "a", "l", "s", "e">>, JBool(FALSE))
           [] s[i] = "n" -> Literal(s, i, <<"n", "u", "l", "l">>, JNull)
           [] OTHER -> ParseFail

(* json.loads: one value and nothing but white space around it *)
json_loads(s) ==
    LET r == ParseValue(s, SkipWs(s, 1))
    IN  IF r.ok /\ SkipWs(s, r.next) = Len(s) + 1 THEN r ELSE ParseFail

----------------------------------------------------------------------------
(* The payloads of the helper runs *)
MaxWidth == 2       \* items of a list or mapping
MaxDepth == 2       \* nesting of lists and mappings
LongLen  == 101     \* length of the long text

DefaultMaxLen == 100

Repeat(c, n) == [i \in 1..n |-> c]

Texts == { << >>, <<"o", "k">>, <<"a", "\"", "\\", "\n">>, Repeat("x", LongLen) }
Keys  == { <<"u", "s", "e", "r">>, <<"k", "\"">> }
Leaves == { JNull, JBool(TRUE), JInt(7) } \cup { JStr(s) : s \in Texts }

(* sequences over S of length at most n *)
SeqsUpTo(S, n) == UNION { [1..m -> S] : m \in 0..n }
DistinctKeys(ps) == \A i, j \in 1..Len(ps) : ps[i][1] = ps[j][1] => i = j

(* lists and mappings whose items are drawn from V *)
Flat(V) ==
    { JList(xs) : xs \in SeqsUpTo(V, MaxWidth) }
    \cup { JDict(ps) : ps \in { q \in SeqsUpTo(Keys \X V, MaxWidth) : DistinctKeys(q) } }

(* one more level of nesting around the containers of V *)
Wrap(V) ==
    { JList(<<v>>) : v \in V } \cup { JDict(<< << <<"u", "s", "e", "r">>, v >>, << <<"i", "d">>, JInt(7) >> >>) : v \in V }

RECURSIVE Nested(_)
Nested(d) == IF d = 1 THEN Flat(Leaves) ELSE Nested(d - 1) \cup Wrap(Nested(d - 1))

(* the payload of the documented example: a text under "user", 7 under "id" *)
UserRecords ==
    { JDict(<< << <<"u", "s", "e", "r">>, JStr(t) >>, << <<"i", "d">>, JInt(7) >> >>) : t \in Texts }

Payloads == Leaves \cup Nested(MaxDepth) \cup UserRecords
MaxLens  == { 0, 3, 22, DefaultMaxLen }

InitData ==
    /\ InitReg /\ loggerDict = << >>
    /\ obj \in Payloads /\ max_len \in MaxLens /\ phase = "input"
    /\ result = JNull /\ again = JNull /\ extra = << >>

(* truncate_large_data(obj, max_len) *)
Truncate ==
    /\ phase = "input"
    /\ result' = truncate_large_data(obj, max_len)
    /\ phase' = "truncated"
    /\ UNCHANGED <<obj, max_len, again, extra>>
    /\ UNCHANGED regVars

(* truncate_large_data applied to its own result *)
TruncateAgain ==
    /\ phase = "truncated"
    /\ again' = truncate_large_data(result, max_len)
    /\ phase' = "twice"
    /\ UNCHANGED <<obj, max_len, result, extra>>
    /\ UNCHANGED regVars

(* get_extra_from_json(obj, max_len) *)
GetExtra ==
    /\ phase = "input"
    /\ extra' = get_extra_from_json(obj, max_len)
    /\ phase' = "extra"
    /\ UNCHANGED <<obj, max_len, result, again>>
    /\ UNCHANGED regVars

NextData == Truncate \/ TruncateAgain \/ GetExtra

SpecData == InitData /\ [][NextData]_vars

----------------------------------------------------------------------------
(* Properties of the registry *)

(* thread t's call for name n has returned a handle *)
Returned(t, n) ==
    pc[t] = "idle" /\ op[t] # "none" /\ args[t].name = n /\ ret[t] # NoHandle

(* the registered name n is as the call that registered it left it *)
AsRegistered(n) ==
    /\ n \in DOMAIN _loggers /\ n \in DOMAIN loggerDict
    /\ _loggers[n] = registered[n].handle
    /\ loggerDict[n] = registered[n].logger

HandlerKinds(lg) == [i \in 1..Len(lg.handlers) |-> lg.handlers[i].kind]
HasHandler(lg, kind) == \E i \in 1..Len(lg.handlers) : lg.handlers[i].kind = kind

(* C1: once setup_logger(n, c1) has returned handle h, a later              *)
(* setup_logger(n, c2) returns h as well, whatever c2 is, and the handle's  *)
(* level, tagger, sinks and propagation flag and the registry entry stay    *)
(* exactly as the first call left them.                                     *)
C1_SecondSetupIgnored ==
    /\ \A n \in DOMAIN registered : AsRegistered(n) /\ inserts[n] = 1
    /\ \A t \in Threads : \A n \in Names :
          (Returned(t, n) /\ op[t] = "setup_logger") =>
              /\ n \in DOMAIN registered
              /\ ret[t] = registered[n].handle
              /\ (~ built[t] => constructions[n] = 1)

C1_Witness ==
    \E t \in Threads : \E n \in DOMAIN registered :
        /\ Returned(t, n) /\ op[t] = "setup_logger" /\ ~ built[t]
        /\ args[t].cfg.level # registered[n].cfg.level
        /\ args[t].cfg.environment # registered[n].cfg.environment
        /\ args[t].cfg.enable_stdout # registered[n].cfg.enable_stdout
        /\ args[t].cfg.logstash_host # registered[n].cfg.logstash_host

C3_InsertOnly ==
    [][ /\ \A n \in DOMAIN _loggers :
             n \in DOMAIN _loggers' /\ _loggers'[n] = _loggers[n] /\ inserts'[n] = inserts[n]
        /\ Cardinality(DOMAIN _loggers') <= Cardinality(DOMAIN _loggers) + 1 ]_vars

C3_Witness ==
    /\ Cardinality(DOMAIN _loggers) = 2
    /\ \E t \in Threads : \E n \in Names : Returned(t, n) /\ ~ built[t]

(* C4: setup_logger for a new name with aggregation enabled and the host    *)
(* absent or empty returns a handle, attaches no aggregation sink, and      *)
(* still attaches the console sink when console output is enabled.          *)
C4_NoHostNoAggregation ==
    \A t \in Threads :
        (built[t] /\ op[t] = "setup_logger" /\ args[t].cfg.enable_logstash
            /\ args[t].cfg.logstash_host \in {None, ""}) =>
            LET n == args[t].name
            IN  /\ pc[t] \in {"s_init", "s_console", "s_logstash", "s_insert", "idle"}
                /\ (pc[t] # "s_init" => ~ HasHandler(loggerDict[n], "logstash"))
                /\ (pc[t] = "idle" =>
                        /\ ret[t] = Handle(n) /\ n \in DOMAIN _loggers
                        /\ HandlerKinds(loggerDict[n])
                             = IF args[t].cfg.enable_stdout THEN <<"console">> ELSE << >>)

C4_Witness ==
    \E t \in Threads :
        /\ built[t] /\ op[t] = "setup_logger" /\ pc[t] = "idle" /\ ret[t] # NoHandle
        /\ args[t].cfg.enable_logstash /\ args[t].cfg.logstash_host = ""
        /\ args[t].cfg.enable_stdout
        /\ HandlerKinds(loggerDict[args[t].name]) = <<"console">>

(* C5: get_logger(name) returns the registered handle, leaving it and the   *)
(* registry as they were, when the name is registered; when it is not, the  *)
(* call registers a handle built from the all-default configuration and     *)
(* returns it.                                                              *)
C5_GetLogger ==
    \A t \in Threads : \A n \in Names :
        (Returned(t, n) /\ op[t] = "get_logger") =>
            /\ n \in DOMAIN registered /\ AsRegistered(n)
            /\ ret[t] = _loggers[n]
            /\ inserts[n] = 1
            /\ (built[t] =>
                   /\ registered[n].cfg =
                        [level |-> 20, logstash_host |-> None, logstash_port |-> 5959,
                         enable_stdout |-> TRUE, enable_logstash |-> TRUE,
                         environment |-> "prod", project_name |-> None,
                         stdout_extra_fields |-> NoFields]
                   /\ loggerDict[n].level = 20 /\ ~ loggerDict[n].propagate
                   /\ loggerDict[n].filters = << [environment |-> "prod"] >>
                   /\ HandlerKinds(loggerDict[n]) = <<"console">>
                   /\ loggerDict[n].handlers[1].level = 20
                   /\ loggerDict[n].handlers[1].allowed_fields = <<"raw_json">>)

C5_Witness ==
    \E t \in Threads : \E n \in Names :
        Returned(t, n) /\ op[t] = "get_logger" /\ built[t] /\ fresh[t]

C5_WitnessHit ==
    \E t \in Threads : \E n \in Names :
        /\ Returned(t, n) /\ op[t] = "get_logger" /\ ~ built[t]
        /\ registered[n].cfg # DefaultConfig

(* C6: every record logged through a handle built with environment e is     *)
(* kept by the tagger and carries environment e in every sink that renders  *)
(* it; the console line shows [e] and the logger's name.                    *)
C6_EnvironmentStamped ==
    (lastLog.handle # NoHandle /\ lastLog.made) =>
        LET n == lastLog.handle[2]
            e == registered[n].cfg.environment
        IN  /\ lastLog.kept
            /\ \A i \in 1..Len(lastLog.deliveries) :
                  LET d == lastLog.deliveries[i]
                  IN  /\ d.environment = e
                      /\ ((d.sink = "console" /\ ~ d.error) =>
                             d.line[2] = "[" \o n \o "]" /\ d.line[4] = "[" \o e \o "]")

C6_Witness ==
    /\ lastLog.handle = Handle("svc") /\ lastLog.made /\ lastLog.levelno = 20
    /\ registered["svc"].cfg.environment = "staging"
    /\ Len(lastLog.deliveries) = 2
    /\ lastLog.deliveries[1].sink = "console"
    /\ lastLog.deliveries[1].line[4] = "[staging]"
    /\ lastLog.deliveries[1].line[2] = "[svc]"

(* C7: on a handle built with minimum level s2, a record logged below s2    *)
(* reaches none of its sinks and a record logged at s2 or above reaches     *)
(* every attached sink.                                                     *)
C7_LevelThreshold ==
    lastLog.handle # NoHandle =>
        LET n == lastLog.handle[2]
            s2 == registered[n].cfg.level
        IN  /\ (lastLog.levelno < s2 => lastLog.deliveries = << >>)
            /\ (lastLog.levelno >= s2 =>
                   /\ Len(lastLog.deliveries) = Len(loggerDict[n].handlers)
                   /\ \A i \in 1..Len(lastLog.deliveries) :
                         lastLog.deliveries[i].sink = loggerDict[n].handlers[i].kind)

C7_Witness ==
    /\ lastLog.handle # NoHandle
    /\ lastLog.levelno = 30 /\ registered[lastLog.handle[2]].cfg.level = 40
    /\ HandlerKinds(loggerDict[lastLog.handle[2]]) = <<"console", "logstash">>
    /\ lastLog.deliveries = << >>

C7_WitnessEmitted ==
    /\ lastLog.handle # NoHandle
    /\ lastLog.levelno = 40 /\ registered[lastLog.handle[2]].cfg.level = 40
    /\ Len(lastLog.deliveries) = 2

----------------------------------------------------------------------------
(* Properties of the data helpers *)

(* every text leaf of x that max length L replaces gets a placeholder of at *)
(* most L characters: 19 fixed characters and the digits of its length      *)
RECURSIVE PlaceholdersFit(_, _)
PlaceholdersFit(x, L) ==
    CASE x.k = "dict" -> \A i \in 1..Len(x.pairs) : PlaceholdersFit(x.pairs[i][2], L)
      [] x.k = "list" -> \A i \in 1..Len(x.items) : PlaceholdersFit(x.items[i], L)
      [] x.k = "str"  -> Len(x.s) > L => 19 + Len(Decimal(Len(x.s))) <= L
      [] OTHER -> TRUE

(* C8 as the spec states it: truncating a truncated value changes nothing,  *)
(* for every value and every max length.                                    *)
C8_Idempotent ==
    phase = "twice" => again = result

(* C8, amended: truncating a truncated value changes nothing whenever the   *)
(* placeholder of every replaced text leaf is itself no longer than the max *)
(* length.                                                                  *)
C8_IdempotentWhenPlaceholdersFit ==
    (phase = "twice" /\ PlaceholdersFit(obj, max_len)) => again = result

C8_Witness ==
    /\ phase = "twice" /\ PlaceholdersFit(obj, max_len)
    /\ result # obj /\ again = result
    /\ obj.k = "dict" /\ max_len = 22

(* the text "<truncated: N chars>" for N = n, read off character by character *)
IsPlaceholderFor(s, n) ==
    /\ Len(s) >= 20
    /\ SubSeq(s, 1, 12) = <<"<", "t", "r", "u", "n", "c", "a", "t", "e", "d", ":", " ">>
    /\ SubSeq(s, Len(s) - 6, Len(s)) = <<" ", "c", "h", "a", "r", "s", ">">>
    /\ LET digits == SubSeq(s, 13, Len(s) - 7)
       IN  /\ \A i \in 1..Len(digits) : IsDigit(digits[i])
           /\ (Len(digits) > 1 => digits[1] # "0")
           /\ ScanDigits(digits, 1, 0).v.n = n

(* y has the shape of x, with exactly the text leaves longer than L replaced *)
RECURSIVE ShapePreserved(_, _, _)
ShapePreserved(x, y, L) ==
    CASE x.k = "dict" ->
           /\ y.k = "dict" /\ Len(y.pairs) = Len(x.pairs)
           /\ \A i \in 1..Len(x.pairs) :
                 /\ y.pairs[i][1] = x.pairs[i][1]
                 /\ ShapePreserved(x.pairs[i][2], y.pairs[i][2], L)
      [] x.k = "list" ->
           /\ y.k = "list" /\ Len(y.items) = Len(x.items)
           /\ \A i \in 1..Len(x.items) : ShapePreserved(x.items[i], y.items[i], L)
      [] x.k = "str" ->
           IF Len(x.s) > L THEN y.k = "str" /\ IsPlaceholderFor(y.s, Len(x.s)) ELSE y = x
      [] OTHER -> y = x

(* C9: truncate_large_data keeps the shape at every depth: a mapping stays  *)
(* a mapping with the same keys in the same order, a list a list of the     *)
(* same length, a text leaf becomes "<truncated: N chars>" exactly when it  *)
(* is longer than max_len, and every other leaf is returned unchanged.      *)
C9_ShapePreserved ==
    phase \in {"truncated", "twice"} => ShapePreserved(obj, result, max_len)

C9_Witness ==
    /\ phase = "truncated" /\ max_len = 3
    /\ obj.k = "list" /\ Len(obj.items) = 1
    /\ obj.items[1].k = "dict" /\ Len(obj.items[1].pairs) = 2
    /\ obj.items[1].pairs[1][2] = JStr(<<"o", "k">>)
    /\ obj.items[1].pairs[2][2] = JStr(<<"a", "\"", "\\", "\n">>)
    /\ result.items[1].pairs[1][2] = JStr(<<"o", "k">>)
    /\ result.items[1].pairs[2][2].s = <<"<", "t", "r", "u", "n", "c", "a", "t", "e", "d", ":", " ",
                                         "4", " ", "c", "h", "a", "r", "s", ">">>

(* C10: get_extra_from_json(d, L) is a mapping with the single key raw_json *)
(* whose text decodes, as JSON, to truncate_large_data(d, L), fields in     *)
(* their original order.                                                    *)
C10_ExtraDecodesToTruncated ==
    phase = "extra" =>
        /\ Len(extra) = 1 /\ extra[1][1] = "raw_json"
        /\ json_loads(extra[1][2]).ok
        /\ json_loads(extra[1][2]).v = truncate_large_data(obj, max_len)
        /\ ShapePreserved(obj, json_loads(extra[1][2]).v, max_len)

C10_Witness ==
    /\ phase = "extra" /\ max_len = 100
    /\ obj = JDict(<< << <<"u", "s", "e", "r">>, JStr(Repeat("x", LongLen)) >>,
                      << <<"i", "d">>, JInt(7) >> >>)
    /\ json_loads(extra[1][2]).v.pairs[1][1] = <<"u", "s", "e", "r">>
    /\ json_loads(extra[1][2]).v.pairs[2][2] = JInt(7)
    /\ Len(extra[1][2]) < 60

----------------------------------------------------------------------------
(* The deliveries of the last logging call that reached the sink `kind` *)
DeliveriesTo(kind) ==
    { lastLog.deliveries[i] : i \in { j \in 1..Len(lastLog.deliveries) :
                                         lastLog.deliveries[j].sink = kind } }

(* The text the claim requires in the document for a value *)
StringFormOrPlaceholder(v) ==
    IF ~ v.str_raises THEN v.text ELSE "<non-serializable: " \o v.type \o ">"

(* C11: on every handle with an aggregation sink, with or without a       *)
(* project label, serializing a record never raises: each attribute json  *)
(* cannot encode appears in the document as its string form, or as        *)
(* "<non-serializable: TypeName>" when taking its string form fails.      *)
C11_SerializationTotal ==
    \A d \in DeliveriesTo("logstash") :
        /\ ~ d.error
        /\ \A i \in 1..Len(lastLog.extra) :
              \E j \in 1..Len(d.document) :
                  d.document[j] = << lastLog.extra[i][1],
                                     StringFormOrPlaceholder(lastLog.extra[i][2]) >>

(* C11 holds where the project label is given: there the safe serializer *)
(* is the handler's formatter                                            *)
C11_TotalWithProjectLabel ==
    \A d \in DeliveriesTo("logstash") :
        d.formatter = "SafeLogstashFormatter" =>
            /\ ~ d.error
            /\ \A i \in 1..Len(lastLog.extra) :
                  \E j \in 1..Len(d.document) :
                      d.document[j] = << lastLog.extra[i][1],
                                         StringFormOrPlaceholder(lastLog.extra[i][2]) >>

(* a placeholder reaches the aggregation sink of a labelled handle *)
C11_WitnessPlaceholder ==
    \E d \in DeliveriesTo("logstash") :
        /\ d.formatter = "SafeLogstashFormatter"
        /\ \E j \in 1..Len(d.document) :
              d.document[j] = <<"conn", "<non-serializable: Unprintable>">>

----------------------------------------------------------------------------
(* The allow-list in force on the registered handle `n` *)
AllowList(n) ==
    LET f == registered[n].cfg.stdout_extra_fields
    IN  IF f.given THEN { f.fields[i] : i \in 1..Len(f.fields) } ELSE {"raw_json"}

(* The attributes of the last logged record that the allow-list names *)
Matching(d) ==
    LET n == lastLog.handle[2]
        InA(kv) == kv[1] \in AllowList(n)
    IN  SelectSeq(RecordAttrs([name |-> n, levelno |-> lastLog.levelno, msg |-> "msg",
                               environment |-> d.environment, extra |-> lastLog.extra]),
                  InA)

(* C12: the console line is the six-piece base line, followed exactly when *)
(* some attribute of the record is named in the allow-list by " | " and    *)
(* the space-joined name=value pairs of exactly those attributes; with no  *)
(* matching attribute (an empty allow-list included) it is the base line.  *)
C12_ConsoleAllowList ==
    \A d \in DeliveriesTo("console") :
        LET m == Matching(d)
        IN  IF d.error THEN \E i \in 1..Len(m) : m[i][2].str_raises
            ELSE /\ Len(d.line) = 6 + 2 * Len(m)
                 /\ d.line[6] = "msg"
                 /\ \A i \in 1..Len(d.line) :
                       d.line[i] = " | " <=> (i = 7 /\ Len(m) > 0)
                 /\ \A i \in 1..Len(m) :
                       /\ d.line[6 + 2 * i] = m[i][1] \o "=" \o m[i][2].text
                       /\ i > 1 => d.line[5 + 2 * i] = " "

(* two allowed attributes appended, a third attribute of the record left out *)
C12_Witness ==
    /\ lastLog.extra = << <<"user_id", PyStr("42")>>, <<"raw_json", PyStr("{}")>> >>
    /\ \E d \in DeliveriesTo("console") :
          d.line = << "[asctime]", "[svc]", "[INFO]", "[prod]", " ", "msg", " | ",
                      "user_id=42", " ", "raw_json={}" >>

(* an explicitly empty allow-list: the base line although raw_json is carried *)
C12_WitnessEmpty ==
    /\ "svc" \in DOMAIN registered
    /\ registered["svc"].cfg.stdout_extra_fields = Fields(<< >>)
    /\ lastLog.extra = << <<"raw_json", PyStr("{}")>> >>
    /\ \E d \in DeliveriesTo("console") : Len(d.line) = 6 /\ ~ d.error

----------------------------------------------------------------------------
(* The last record was logged through a handle that the caller's own call *)
(* built without an environment argument: by get_logger's fallback, or by *)
(* setup_logger with every optional argument left out                     *)
LoggedThroughDefaultEnvironment ==
    /\ lastLog.made /\ built[1]
    /\ op[1] = "get_logger" \/ args[1].cfg = DefaultConfig

(* C13 as stated: such a handle stamps every record with "dev" *)
C13_DefaultEnvironmentDev ==
    LoggedThroughDefaultEnvironment =>
        /\ lastLog.kept
        /\ \A i \in 1..Len(lastLog.deliveries) : lastLog.deliveries[i].environment = "dev"

(* C13: a handle built with no environment argument, get_logger's lazily *)
(* created one included, stamps every record with "prod"                 *)
C13_DefaultEnvironmentProd ==
    LoggedThroughDefaultEnvironment =>
        /\ lastLog.kept
        /\ \A i \in 1..Len(lastLog.deliveries) : lastLog.deliveries[i].environment = "prod"

(* get_logger built the handle and its console line carries [prod] *)
C13_Witness ==
    /\ lastLog.made /\ built[1] /\ op[1] = "get_logger"
    /\ \E d \in DeliveriesTo("console") : d.line[4] = "[prod]"

----------------------------------------------------------------------------
(* The logger object the thread's finished call worked on *)
LoggerOf(t) == loggerDict[args[t].name]

(* C14: once setup_logger has constructed a handle (it is about to insert *)
(* it, or has returned it), its sinks are the console sink iff console is *)
(* enabled, then the aggregation sink iff aggregation is enabled and a    *)
(* host is supplied, and nothing else: what was bound to the name before  *)
(* the call is gone.                                                      *)
C14_ExactSinks ==
    (pc[1] = "s_insert" \/ (pc[1] = "idle" /\ built[1] /\ ret[1] # NoHandle)) =>
        LET cfg == args[1].cfg
            hosted == cfg.enable_logstash /\ cfg.logstash_host \notin {None, ""}
        IN  HandlerKinds(LoggerOf(1)) =
                (IF cfg.enable_stdout THEN <<"console">> ELSE << >>)
                \o (IF hosted THEN <<"logstash">> ELSE << >>)

(* a name that came with a foreign handler ends up with the two sinks only *)
C14_Witness ==
    /\ pc[1] = "s_insert" /\ op[1] = "setup_logger"
    /\ HandlerKinds(found[1]) = <<"foreign">>
    /\ HandlerKinds(LoggerOf(1)) = <<"console", "logstash">>

(* both sinks switched off over a foreign handler: no sink remains *)
C14_WitnessNone ==
    /\ pc[1] = "s_insert" /\ HandlerKinds(found[1]) = <<"foreign">>
    /\ ~ args[1].cfg.enable_stdout /\ ~ args[1].cfg.enable_logstash
    /\ HandlerKinds(LoggerOf(1)) = << >>

----------------------------------------------------------------------------
C15_WitnessGetWins ==
    \E t1, t2 \in Threads : \E n \in Names :
        /\ t1 # t2 /\ Returned(t1, n) /\ Returned(t2, n)
        /\ op[t1] = "get_logger" /\ built[t1] /\ fresh[t2]
        /\ op[t2] = "setup_logger" /\ ~ built[t2] /\ args[t2].cfg # FallbackConfig
        /\ registered[n].cfg = FallbackConfig

----------------------------------------------------------------------------
(* C16: every handle in the registry has propagation switched off, and a *)
(* record logged through a registered handle is delivered to the         *)
(* handle's own sinks only, never to the parent's.                       *)
C16_NoPropagation ==
    /\ \A n \in DOMAIN _loggers : ~ loggerDict[n].propagate
    /\ lastLog.made =>
          /\ lastLog.handle[2] \in DOMAIN _loggers
          /\ DeliveriesTo("parent") = {}
          /\ \A i \in 1..Len(lastLog.deliveries) :
                lastLog.deliveries[i].sink \in {"console", "logstash"}

(* a record went to both own sinks while the root logger holds handlers *)
C16_Witness ==
    /\ ParentHasHandlers /\ lastLog.made /\ lastLog.kept
    /\ Len(lastLog.deliveries) = 2
    /\ DeliveriesTo("console") # {} /\ DeliveriesTo("logstash") # {}
    /\ ~ loggerDict[lastLog.handle[2]].propagate

----------------------------------------------------------------------------
(* The sinks the configuration selects, in the order they are attached *)
SelectedSinks(cfg) ==
    (IF cfg.enable_stdout THEN <<"console">> ELSE << >>)
    \o (IF cfg.enable_logstash /\ cfg.logstash_host \notin {None, ""}
        THEN <<"logstash">> ELSE << >>)

(* The logger of name n carries everything its registering call selected *)
FullyConfigured(n) ==
    /\ n \in DOMAIN registered /\ n \in DOMAIN loggerDict
    /\ LET lg == loggerDict[n]
           cfg == registered[n].cfg
       IN  /\ lg.level = cfg.level
           /\ ~ lg.propagate
           /\ Len(lg.filters) > 0
           /\ lg.filters[Len(lg.filters)] = EnvironmentFilter(cfg.environment)
           /\ HandlerKinds(lg) = SelectedSinks(cfg)
           /\ \A i \in 1..Len(lg.handlers) : lg.handlers[i].level = cfg.level

Constructing == {"s_init", "s_console", "s_logstash", "s_insert"}

(* C17: a name is in the registry only once its logger is fully          *)
(* configured: no thread is still constructing a registered name, and    *)
(* every handle a call has returned is registered and fully configured.  *)
C17_VisibleWhenConfigured ==
    /\ \A n \in DOMAIN _loggers : FullyConfigured(n)
    /\ \A t \in Threads : pc[t] \in Constructing => args[t].name \notin DOMAIN _loggers
    /\ \A t \in Threads :
          ret[t] # NoHandle =>
              /\ ret[t][2] \in DOMAIN _loggers
              /\ _loggers[ret[t][2]] = ret[t]
              /\ FullyConfigured(ret[t][2])

(* one thread is halfway through constructing n, the aggregation sink it *)
(* selected still to come, while another thread asks for n               *)
C17_Witness ==
    \E t1, t2 \in Threads : \E n \in Names :
        /\ t1 # t2 /\ pc[t1] = "s_logstash" /\ args[t1].name = n
        /\ args[t1].cfg.logstash_host = "elk"
        /\ n \in DOMAIN loggerDict /\ n \notin DOMAIN _loggers
        /\ pc[t2] \in {"s_lock", "g_lock"} /\ args[t2].name = n /\ ret[t2] = NoHandle

(* the asking thread got the handle after the constructing one finished *)
C17_WitnessReturned ==
    \E t1, t2 \in Threads : \E n \in Names :
        /\ t1 # t2 /\ Returned(t1, n) /\ built[t1] /\ Returned(t2, n)
        /\ op[t2] = "get_logger" /\ fresh[t2] /\ ~ built[t2]
        /\ HandlerKinds(loggerDict[n]) = <<"logstash">>

----------------------------------------------------------------------------
InsideWith == {"s_check", "s_init", "s_console", "s_logstash", "s_insert", "g_check"}

(* C18: the lock is held only by a thread inside a with block, so a thread *)
(* asking for it never holds it already and a call that has returned or   *)
(* raised has released it; and every call that has started comes to its   *)
(* end, by returning or by raising.                                       *)
C18_LockReleasedCallsEnd ==
    /\ [](\A t \in Threads : _lock = t => pc[t] \in InsideWith)
    /\ [](\A t \in Threads : pc[t] \in InsideWith => _lock = t)
    /\ \A t \in Threads : (pc[t] \notin {"idle", "raised"}) ~> (pc[t] \in {"idle", "raised"})

(* a construction raised and released the lock; the thread that waited *)
(* for it then built and returned the handle                           *)
C18_Witness ==
    \E t1, t2 \in Threads :
        /\ t1 # t2 /\ pc[t1] = "raised" /\ args[t1].name = "svc"
        /\ Returned(t2, "svc") /\ built[t2] /\ _lock = 0
        /\ constructions["svc"] = 2

----------------------------------------------------------------------------
(* The environment taggers attached to the logger of name n *)
Taggers(n) == loggerDict[n].filters

(* C19: every registered handle has exactly one environment tagger, and  *)
(* its label is the environment of the call that registered the handle,  *)
(* also when an earlier construction for the name raised partway and the *)
(* name was constructed again.                                           *)
C19_OneTagger ==
    \A n \in DOMAIN _loggers :
        /\ n \in DOMAIN registered
        /\ Taggers(n) = << EnvironmentFilter(registered[n].cfg.environment) >>

(* what C19 has right: the tagger attached last, which stamps the record *)
(* last, carries the registering call's environment                      *)
C19_LastTaggerIsRegistered ==
    \A n \in DOMAIN _loggers :
        /\ n \in DOMAIN registered
        /\ Len(Taggers(n)) >= 1
        /\ Taggers(n)[Len(Taggers(n))] = EnvironmentFilter(registered[n].cfg.environment)

(* a handle registered with two taggers: the failed attempt's and the *)
(* retry's                                                            *)
C19_WitnessTwoTaggers ==
    /\ "svc" \in DOMAIN _loggers
    /\ Taggers("svc") = << EnvironmentFilter("staging"), EnvironmentFilter("prod") >>
    /\ registered["svc"].cfg.environment = "prod"

============================================================================
